---- MODULE Spec2Model ----
(***************************************************************************)
(* Model of the App component of the earthquake visualizer                 *)
(* (src/src/App.jsx): the fetch pipeline (fetchData), the mount effect,    *)
(* the auto-refresh effect with its interval handle, the filter criteria,  *)
(* the derived filtered view and stats, and the style mapper (getColor,    *)
(* getRadius).                                                             *)
(*                                                                         *)
(* Magnitudes are fixed-point numbers in tenths (52 is magnitude 5.2).     *)
(* Strings that the code transforms (place, query) are sequences of        *)
(* one-character strings, so that trim / toLowerCase / includes are        *)
(* computed and not assumed.                                               *)
(*                                                                         *)
(* React runs the handlers of one event, the re-render and the effects of  *)
(* that render (cleanup first, then the effect body) to completion before  *)
(* the next timer callback or promise continuation is taken from the       *)
(* event loop, so a handler together with the effects it causes is one     *)
(* action.  fetchData suspends at its two awaits; each await is a step.    *)
(***************************************************************************)
EXTENDS Integers, Sequences, FiniteSets, TLC

VARIABLES
    phase,               \* "init": rendered with the useState defaults, effects not yet run;
                         \* "mounted"; "unmounted"
    earthquakes,         \* useState([])        App.jsx:34   (rawEvents)
    loading,             \* useState(true)      App.jsx:35   (isLoading)
    error,               \* useState(null)      App.jsx:36   (lastError)
    minMag,              \* useState(0)         App.jsx:39
    maxMag,              \* useState(10)        App.jsx:40
    colorMode,           \* useState('severity') App.jsx:41
    query,               \* useState('')        App.jsx:42
    autoRefresh,         \* useState(true)      App.jsx:43
    refreshIntervalRef,  \* useRef(null)        App.jsx:44   (0 is null)
    timers,              \* the browser's active interval ids
    nextTimerId,         \* the id the next setInterval returns
    fetches,             \* the position of every fetchData call, in trigger order
    ticks,               \* history: interval callbacks run so far
    manuals,             \* history: clicks on "Refresh now" so far
    lastDone,            \* history: the call that finished most recently (0: none)
    lastOk,              \* history: the call that most recently finished with success
                         \* (id 0: none) and the event list it produced
    justReset,           \* history: the last step was a click on "Reset"
    marker               \* the event (mag, depth) a CircleMarker is drawn for  App.jsx:262-268

vars == <<phase, earthquakes, loading, error, minMag, maxMag, colorMode, query,
          autoRefresh, refreshIntervalRef, timers, nextTimerId, fetches,
          ticks, manuals, lastDone, lastOk, justReset, marker>>

reactState == <<earthquakes, loading, error>>
criteria == <<minMag, maxMag, colorMode, query>>
timerState == <<autoRefresh, refreshIntervalRef, timers, nextTimerId>>
history == <<ticks, manuals, lastDone, lastOk>>

----------------------------------------------------------------------------
(* Bounds *)

\* fetchData calls in one run
MaxFetches == 2
\* setInterval calls in one run
MaxTimerIds == 2
\* magnitudes (in tenths) of the events a marker is drawn for: -MaxNegMag..MaxMarkerMag
MaxNegMag == 5
MaxMarkerMag == 105

----------------------------------------------------------------------------
(* Values *)

Null == "<null>"

\* thrown at App.jsx:54
HttpErrorMessage == "Failed to fetch earthquake data"

\* messages of the errors the engine throws (a rejected fetch, a SyntaxError of
\* res.json(), the TypeError of reading .map of undefined); the text is the
\* engine's, it may be empty
EngineMessages == {"", "engine error"}

Tokyo == <<"T", "o", "k">>
Reno == <<"R", "e">>
UnknownLocation == <<"U", "n", "k">>

\* Features of the feed: properties.mag and properties.place may be absent;
\* coordinates are [lon, lat, depth].
Feature1 == [id |-> "a", properties |-> [mag |-> 52, place |-> Tokyo], depth |-> 10]
Feature2 == [id |-> "b", properties |-> [mag |-> 21, place |-> Reno], depth |-> 300]
Feature3 == [id |-> "c", properties |-> [place |-> Reno], depth |-> 50]
Feature4 == [id |-> "d", properties |-> [mag |-> 30], depth |-> 100]

\* Response bodies that parse and carry a feature list
Feeds == { <<Feature1, Feature2>>, <<Feature3, Feature4, Feature1>>, <<>> }

\* What the first await (fetch) can deliver
Responses == {"network", "http", "ok"}
\* What the second await (res.json()) can deliver besides a feed
BadBodies == {"badjson", "nofeatures"}

\* Values the user can type into the controls
MagInputs == {0, 30, 100}
QueryInputs == { <<>>, <<" ">>, <<" ", "r", "E", " ">> }
ColorModes == {"severity", "depth"}

\* Events a marker is drawn for
MarkerMags == (0 - MaxNegMag)..MaxMarkerMag
MarkerDepths == {0 - 1, 0, 49, 50, 99, 100, 299, 300, 301}

----------------------------------------------------------------------------
(* Pure helpers *)

\* magOf with the wrong default (f.properties.mag ?? 1)
magOfDefaultOne(f) == IF "mag" \in DOMAIN f.properties THEN f.properties.mag ELSE 10

\* f.properties.mag ?? 0                                    App.jsx:60
magOf(f) == IF "mag" \in DOMAIN f.properties THEN f.properties.mag ELSE 0

\* f.properties.place ?? 'Unknown location'                 App.jsx:61
placeOf(f) == IF "place" \in DOMAIN f.properties THEN f.properties.place ELSE UnknownLocation

\* the arrow function of data.features.map                  App.jsx:56-69
mapFeature(f) == [id |-> f.id, mag |-> magOf(f), place |-> placeOf(f), depth |-> f.depth]

\* data.features.map(...)
mapFeatures(feed) == [i \in 1..Len(feed) |-> mapFeature(feed[i])]

\* String.prototype.trim
RECURSIVE trimStart(_)
trimStart(s) == IF s # <<>> /\ Head(s) = " " THEN trimStart(Tail(s)) ELSE s

RECURSIVE trimEnd(_)
trimEnd(s) == IF s # <<>> /\ s[Len(s)] = " " THEN trimEnd(SubSeq(s, 1, Len(s) - 1)) ELSE s

trim(s) == trimEnd(trimStart(s))

\* String.prototype.toLowerCase
lowerChar(c) ==
    CASE c = "T" -> "t"
      [] c = "R" -> "r"
      [] c = "E" -> "e"
      [] c = "U" -> "u"
      [] OTHER -> c

toLowerCase(s) == [i \in 1..Len(s) |-> lowerChar(s[i])]

\* String.prototype.includes
includes(s, q) == \E i \in 0..(Len(s) - Len(q)) : SubSeq(s, i + 1, i + Len(q)) = q

\* magInRange with an exclusive lower bound
magInRangeExclusive(e, mn, mx) == e.mag > mn /\ e.mag <= mx

\* e => e.mag >= minMag && e.mag <= maxMag                   App.jsx:96
magInRange(e, mn, mx) == e.mag >= mn /\ e.mag <= mx

\* e => (q ? e.place.toLowerCase().includes(q) : true)       App.jsx:97
placeMatches(e, q) == IF q # <<>> THEN includes(toLowerCase(e.place), q) ELSE TRUE

\* filterEvents that returns the matches newest-last (reversed)
filterEventsReversed(eqs, mn, mx, qry) ==
    LET q == toLowerCase(trim(qry))
        kept == SelectSeq(SelectSeq(eqs, LAMBDA e : magInRange(e, mn, mx)),
                          LAMBDA e : placeMatches(e, q))
    IN [i \in 1..Len(kept) |-> kept[Len(kept) + 1 - i]]

\* the body of the filtered useMemo                          App.jsx:93-98
filterEvents(eqs, mn, mx, qry) ==
    LET q == toLowerCase(trim(qry))
    IN SelectSeq(SelectSeq(eqs, LAMBDA e : magInRange(e, mn, mx)),
                 LAMBDA e : placeMatches(e, q))

filtered == filterEvents(earthquakes, minMag, maxMag, query)

\* e.mag || 0                                               App.jsx:133
magOrZero(m) == IF m = 0 THEN 0 ELSE m

\* Math.max(...xs) of a non-empty list
RECURSIVE mathMax(_)
mathMax(xs) ==
    IF Len(xs) = 1 THEN xs[1]
    ELSE LET rest == mathMax(Tail(xs)) IN IF xs[1] >= rest THEN xs[1] ELSE rest

\* the body of the stats useMemo                             App.jsx:130-135
statsOf(eqs) ==
    IF Len(eqs) = 0 THEN [count |-> 0, maxMag |-> 0]
    ELSE [count |-> Len(eqs),
          maxMag |-> mathMax([i \in 1..Len(eqs) |-> magOrZero(eqs[i].mag)])]

\* stats computed from the filtered view
statsOfFilteredView == statsOf(filtered)

stats == statsOf(earthquakes)

\* getColor with every threshold exclusive
getColorExclusive(e, mode) ==
    IF mode = "depth"
      THEN IF e.depth > 300 THEN "#0b3d91"
           ELSE IF e.depth > 100 THEN "#2b77d9"
           ELSE IF e.depth > 50 THEN "#5aa0f0"
           ELSE "#9fd0ff"
      ELSE IF e.mag > 60 THEN "#b02a2a"
           ELSE IF e.mag > 50 THEN "#f97316"
           ELSE IF e.mag > 40 THEN "#f59e0b"
           ELSE IF e.mag > 30 THEN "#eab308"
           ELSE "#16a34a"

\* getColor                                                  App.jsx:106-122
getColor(e, mode) ==
    IF mode = "depth"
      THEN IF e.depth >= 300 THEN "#0b3d91"
           ELSE IF e.depth >= 100 THEN "#2b77d9"
           ELSE IF e.depth >= 50 THEN "#5aa0f0"
           ELSE "#9fd0ff"
      ELSE IF e.mag >= 60 THEN "#b02a2a"
           ELSE IF e.mag >= 50 THEN "#f97316"
           ELSE IF e.mag >= 40 THEN "#f59e0b"
           ELSE IF e.mag >= 30 THEN "#eab308"
           ELSE "#16a34a"

\* Math.max / Math.min of two numbers
max2(a, b) == IF a >= b THEN a ELSE b
min2(a, b) == IF a <= b THEN a ELSE b

\* getRadius without the upper clamp
getRadiusUnclamped(mag) == IF mag <= 0 THEN 40 ELSE max2(40, mag * 4)

\* getRadius (magnitude and radius in tenths: 4 is 40, 40 is 400, and
\* mag * 4 in tenths is the tenths of mag times 4)            App.jsx:124-127
getRadius(mag) == IF mag <= 0 THEN 40 ELSE max2(40, min2(400, mag * 4))

\* radius={getRadius(e.mag)}                                 App.jsx:266
markerRadius == getRadius(marker.mag)

\* color: getColor(e)                                        App.jsx:267
markerColor == getColor(marker, colorMode)

----------------------------------------------------------------------------
(* State after construction: the useState / useRef initial values *)

Init ==
    /\ phase = "init"
    /\ earthquakes = <<>>
    /\ loading = TRUE
    /\ error = Null
    /\ minMag = 0
    /\ maxMag = 100
    /\ colorMode = "severity"
    /\ query = <<>>
    /\ autoRefresh = TRUE
    /\ refreshIntervalRef = 0
    /\ timers = {}
    /\ nextTimerId = 1
    /\ fetches = <<>>
    /\ ticks = 0
    /\ manuals = 0
    /\ lastDone = 0
    /\ lastOk = [id |-> 0, payload |-> <<>>]
    /\ justReset = FALSE
    /\ marker = [mag |-> 0, depth |-> 0]

----------------------------------------------------------------------------
(* fetchData                                                 App.jsx:47-77 *)

\* A state setter of a component that is no longer mounted changes nothing.
Live == phase = "mounted"

InFlight == {i \in 1..Len(fetches) : fetches[i] \in {"awaitFetch", "awaitJson"}}

\* err.message || 'Unknown error'                            App.jsx:73
errorText(m) == IF m = "" THEN "Unknown error" ELSE m

\* fetchDataStart without setError(null)
fetchDataStartKeepsError(live) ==
    /\ Len(fetches) < MaxFetches
    /\ fetches' = Append(fetches, "awaitFetch")
    /\ IF live
         THEN loading' = TRUE
         ELSE UNCHANGED loading
    /\ UNCHANGED <<earthquakes, error, lastDone, lastOk>>

\* The synchronous head of fetchData: setLoading(true); setError(null); then
\* the request is issued and the call suspends at `await fetch(...)`.
\* `live` says whether the component's setters still take effect.
fetchDataStart(live) ==
    /\ Len(fetches) < MaxFetches
    /\ fetches' = Append(fetches, "awaitFetch")
    /\ IF live
         THEN loading' = TRUE /\ error' = Null
         ELSE UNCHANGED <<loading, error>>
    /\ UNCHANGED <<earthquakes, lastDone, lastOk>>

\* fetchDataCatch with a catch block that handles only the error thrown at
\* App.jsx:54 and lets the engine's errors pass (finally still runs)
fetchDataCatchOnlyHttp(i, m) ==
    /\ fetches' = [fetches EXCEPT ![i] = "failed"]
    /\ lastDone' = i
    /\ IF Live
         THEN /\ error' = IF m = HttpErrorMessage THEN m ELSE error
              /\ loading' = FALSE
         ELSE UNCHANGED <<loading, error>>
    /\ UNCHANGED <<earthquakes, lastOk>>

\* fetchDataCatch with a catch block that also empties the list
fetchDataCatchWipes(i, m) ==
    /\ fetches' = [fetches EXCEPT ![i] = "failed"]
    /\ lastDone' = i
    /\ IF Live
         THEN error' = errorText(m) /\ loading' = FALSE /\ earthquakes' = <<>>
         ELSE UNCHANGED <<loading, error, earthquakes>>
    /\ UNCHANGED lastOk

\* fetchDataCatch without the finally block
fetchDataCatchKeepsLoading(i, m) ==
    /\ fetches' = [fetches EXCEPT ![i] = "failed"]
    /\ lastDone' = i
    /\ IF Live
         THEN error' = errorText(m)
         ELSE UNCHANGED error
    /\ UNCHANGED <<earthquakes, loading, lastOk>>

\* The call i leaves through catch and finally: setError(...); setLoading(false)
fetchDataCatch(i, m) ==
    /\ fetches' = [fetches EXCEPT ![i] = "failed"]
    /\ lastDone' = i
    /\ IF Live
         THEN error' = errorText(m) /\ loading' = FALSE
         ELSE UNCHANGED <<loading, error>>
    /\ UNCHANGED <<earthquakes, lastOk>>

\* fetchDataSuccess that applies the result only of the most recently
\* triggered call
fetchDataSuccessLatestOnly(i, feed) ==
    /\ fetches' = [fetches EXCEPT ![i] = "succeeded"]
    /\ lastDone' = i
    /\ lastOk' = [id |-> i, payload |-> mapFeatures(feed)]
    /\ IF Live
         THEN /\ earthquakes' = IF i = Len(fetches) THEN mapFeatures(feed) ELSE earthquakes
              /\ loading' = FALSE
         ELSE UNCHANGED <<earthquakes, loading>>
    /\ UNCHANGED error

\* The call i reaches setEarthquakes(features) and then finally: setLoading(false)
fetchDataSuccess(i, feed) ==
    /\ fetches' = [fetches EXCEPT ![i] = "succeeded"]
    /\ lastDone' = i
    /\ lastOk' = [id |-> i, payload |-> mapFeatures(feed)]
    /\ IF Live
         THEN earthquakes' = mapFeatures(feed) /\ loading' = FALSE
         ELSE UNCHANGED <<earthquakes, loading>>
    /\ UNCHANGED error

\* `await fetch(...)` settles: rejected (network), resolved with !res.ok, or
\* resolved with res.ok and the call goes on to `await res.json()`.
ResponseArrives(i, r) ==
    /\ i \in 1..Len(fetches)
    /\ fetches[i] = "awaitFetch"
    /\ CASE r = "network" -> \E m \in EngineMessages : fetchDataCatch(i, m)
         [] r = "http" -> fetchDataCatch(i, HttpErrorMessage)
         [] r = "ok" -> /\ fetches' = [fetches EXCEPT ![i] = "awaitJson"]
                        /\ UNCHANGED <<earthquakes, loading, error, lastDone, lastOk>>
    /\ UNCHANGED <<phase, criteria, timerState, ticks, manuals>>

\* `await res.json()` settles: rejected (not JSON), a document without
\* features (data.features.map throws), or a feed.
BodyArrives(i, b) ==
    /\ i \in 1..Len(fetches)
    /\ fetches[i] = "awaitJson"
    /\ IF b \in BadBodies
         THEN \E m \in EngineMessages : fetchDataCatch(i, m)
         ELSE fetchDataSuccess(i, b)
    /\ UNCHANGED <<phase, criteria, timerState, ticks, manuals>>

----------------------------------------------------------------------------
(* The effects                                               App.jsx:79-91 *)

\* autoRefreshEffect without the `if (autoRefresh)`
autoRefreshEffectAlways(enabled, ref, active) ==
    /\ nextTimerId <= MaxTimerIds
    /\ refreshIntervalRef' = nextTimerId
    /\ timers' = active \cup {nextTimerId}
    /\ nextTimerId' = nextTimerId + 1

\* The body of the auto-refresh effect: if (autoRefresh) ref.current = setInterval(...)
\* `ref` and `active` are the handle and the active intervals after the cleanup.
autoRefreshEffect(enabled, ref, active) ==
    IF enabled
      THEN /\ nextTimerId <= MaxTimerIds
           /\ refreshIntervalRef' = nextTimerId
           /\ timers' = active \cup {nextTimerId}
           /\ nextTimerId' = nextTimerId + 1
      ELSE /\ refreshIntervalRef' = ref
           /\ timers' = active
           /\ nextTimerId' = nextTimerId

\* autoRefreshCleanup without the clearInterval
autoRefreshCleanupLeaks(ref, active) == active

\* The cleanup of the auto-refresh effect: the intervals left active by
\* if (ref.current) clearInterval(ref.current)
autoRefreshCleanup(ref, active) == IF ref # 0 THEN active \ {ref} ELSE active

\* Mount without the effect of App.jsx:79-81
MountWithoutFetch ==
    /\ phase = "init"
    /\ phase' = "mounted"
    /\ autoRefreshEffect(autoRefresh, refreshIntervalRef, timers)
    /\ UNCHANGED <<reactState, criteria, autoRefresh, fetches, history>>

\* First commit: both effects run, in source order.
Mount ==
    /\ phase = "init"
    /\ phase' = "mounted"
    /\ fetchDataStart(TRUE)
    /\ autoRefreshEffect(autoRefresh, refreshIntervalRef, timers)
    /\ UNCHANGED <<criteria, autoRefresh, ticks, manuals>>

\* The interval callback () => fetchData() of an active interval
Tick(t) ==
    /\ t \in timers
    /\ fetchDataStart(Live)
    /\ ticks' = ticks + 1
    /\ UNCHANGED <<phase, criteria, timerState, manuals>>

\* ManualRefresh with the button disabled while loading
ManualRefreshWhenIdle ==
    /\ phase = "mounted"
    /\ ~loading
    /\ fetchDataStart(TRUE)
    /\ manuals' = manuals + 1
    /\ UNCHANGED <<phase, criteria, timerState, ticks>>

\* onClick={fetchData} of "Refresh now"                      App.jsx:200
ManualRefresh ==
    /\ phase = "mounted"
    /\ fetchDataStart(TRUE)
    /\ manuals' = manuals + 1
    /\ UNCHANGED <<phase, criteria, timerState, ticks>>

\* SetAutoRefresh that, when switched off, also abandons the calls in flight
SetAutoRefreshAborts(checked) ==
    /\ phase = "mounted"
    /\ checked # autoRefresh
    /\ autoRefresh' = checked
    /\ autoRefreshEffect(checked, refreshIntervalRef,
                         autoRefreshCleanup(refreshIntervalRef, timers))
    /\ fetches' = IF checked THEN fetches
                  ELSE [i \in 1..Len(fetches) |->
                          IF i \in InFlight THEN "failed" ELSE fetches[i]]
    /\ UNCHANGED <<phase, reactState, criteria, history>>

\* SetAutoRefresh whose effect also fetches at once when switched on
SetAutoRefreshFetches(checked) ==
    /\ phase = "mounted"
    /\ checked # autoRefresh
    /\ autoRefresh' = checked
    /\ autoRefreshEffect(checked, refreshIntervalRef,
                         autoRefreshCleanup(refreshIntervalRef, timers))
    /\ IF checked
         THEN fetchDataStart(TRUE)
         ELSE UNCHANGED <<reactState, fetches, lastDone, lastOk>>
    /\ UNCHANGED <<phase, criteria, ticks, manuals>>

\* onChange of the auto-refresh checkbox: setAutoRefresh(e.target.checked),
\* then the effect of [autoRefresh]: cleanup of the previous run, then the body.
SetAutoRefresh(checked) ==
    /\ phase = "mounted"
    /\ checked # autoRefresh
    /\ autoRefresh' = checked
    /\ autoRefreshEffect(checked, refreshIntervalRef,
                         autoRefreshCleanup(refreshIntervalRef, timers))
    /\ UNCHANGED <<phase, reactState, criteria, fetches, history>>

\* The component is removed: the cleanup of the auto-refresh effect runs.
Unmount ==
    /\ phase = "mounted"
    /\ phase' = "unmounted"
    /\ timers' = autoRefreshCleanup(refreshIntervalRef, timers)
    /\ UNCHANGED <<reactState, criteria, autoRefresh, refreshIntervalRef, nextTimerId,
                   fetches, history>>

----------------------------------------------------------------------------
(* The filter controls                                       App.jsx:176-201 *)

SetMinMag(v) ==
    /\ phase = "mounted"
    /\ minMag' = v
    /\ UNCHANGED <<phase, reactState, maxMag, colorMode, query, timerState, fetches, history>>

SetMaxMag(v) ==
    /\ phase = "mounted"
    /\ maxMag' = v
    /\ UNCHANGED <<phase, reactState, minMag, colorMode, query, timerState, fetches, history>>

SetQuery(q) ==
    /\ phase = "mounted"
    /\ query' = q
    /\ UNCHANGED <<phase, reactState, minMag, maxMag, colorMode, timerState, fetches, history>>

SetColorMode(m) ==
    /\ phase = "mounted"
    /\ colorMode' = m
    /\ UNCHANGED <<phase, reactState, minMag, maxMag, query, timerState, fetches, history>>

\* Reset that forgets the search box
ResetKeepsQuery ==
    /\ phase = "mounted"
    /\ minMag' = 0
    /\ maxMag' = 100
    /\ colorMode' = "severity"
    /\ UNCHANGED <<phase, reactState, query, timerState, fetches, history>>

\* onClick of "Reset"                                        App.jsx:201
Reset ==
    /\ phase = "mounted"
    /\ minMag' = 0
    /\ maxMag' = 100
    /\ query' = <<>>
    /\ colorMode' = "severity"
    /\ UNCHANGED <<phase, reactState, timerState, fetches, history>>

----------------------------------------------------------------------------

\* A CircleMarker is drawn for an event of magnitude m (tenths) and depth d
RenderMarker(m, d) ==
    /\ phase = "mounted"
    /\ marker' = [mag |-> m, depth |-> d]
    /\ UNCHANGED <<phase, reactState, criteria, timerState, fetches, history>>

\* The steps other than a click on "Reset"
Step ==
    \/ Mount
    \/ \E t \in timers : Tick(t)
    \/ ManualRefresh
    \/ \E c \in BOOLEAN : SetAutoRefresh(c)
    \/ Unmount
    \/ \E i \in 1..MaxFetches, r \in Responses : ResponseArrives(i, r)
    \/ \E i \in 1..MaxFetches, b \in BadBodies \cup Feeds : BodyArrives(i, b)
    \/ \E v \in MagInputs : SetMinMag(v)
    \/ \E v \in MagInputs : SetMaxMag(v)
    \/ \E q \in QueryInputs : SetQuery(q)
    \/ \E m \in ColorModes : SetColorMode(m)

Next ==
    \/ Step /\ justReset' = FALSE /\ UNCHANGED marker
    \/ Reset /\ justReset' = TRUE /\ UNCHANGED marker

Spec == Init /\ [][Next]_vars

\* The style mapper on its own: the component starts, the color mode is
\* switched, and markers are drawn for events over the whole range of
\* magnitudes and depths.
NextStyle ==
    \/ Mount /\ justReset' = FALSE /\ UNCHANGED marker
    \/ \E m \in ColorModes : SetColorMode(m) /\ justReset' = FALSE /\ UNCHANGED marker
    \/ \E m \in MarkerMags, d \in MarkerDepths : RenderMarker(m, d) /\ justReset' = FALSE

SpecStyle == Init /\ [][NextStyle]_vars

----------------------------------------------------------------------------
(* Properties *)

\* The call i finishes in this step, through catch / through setEarthquakes
FailedNow(i) == i \in InFlight /\ fetches'[i] = "failed"
SucceededNow(i) == i \in InFlight /\ fetches'[i] = "succeeded"
StartedNow == Len(fetches') = Len(fetches) + 1

\* C1: a fetch that completes with failure leaves rawEvents as it was before
\* the completion, and (while the component is mounted) leaves lastError
\* non-null; so a failure after an earlier success keeps the earlier list.
C1_FailureKeepsRawEvents ==
    [][\A i \in 1..Len(fetches) :
          FailedNow(i) => /\ earthquakes' = earthquakes
                          /\ (Live => error' # Null)]_vars

\* a failure completed last, after an earlier success filled the list
C1_Witness ==
    /\ phase = "mounted"
    /\ lastDone # 0
    /\ fetches[lastDone] = "failed"
    /\ lastOk.id # 0
    /\ earthquakes # <<>>
    /\ error # Null

\* C2: an interval callback runs (and starts a fetch) only in a state where
\* the component is mounted and autoRefresh is true: none after autoRefresh
\* went false until it is true again, none after teardown.
C2_TimerCancellationExact ==
    [][ticks' # ticks => (phase = "mounted" /\ autoRefresh /\ StartedNow)]_vars

\* auto-refresh was switched off after its interval had ticked
C2_Witness ==
    /\ phase = "mounted"
    /\ ~autoRefresh
    /\ ticks >= 1
    /\ refreshIntervalRef # 0

\* C3: exactly one interval is active when the component is mounted and
\* autoRefresh is true, none otherwise.
C3_OneTimerIffEnabled ==
    Cardinality(timers) = IF phase = "mounted" /\ autoRefresh THEN 1 ELSE 0

\* auto-refresh switched off and on again: setInterval was called twice
C3_Witness ==
    /\ phase = "mounted"
    /\ autoRefresh
    /\ nextTimerId >= 3
    /\ Cardinality(timers) = 1

\* C4: the only step out of the initial state is the start of the component,
\* which triggers exactly one fetch; nothing (no tick, no user action) comes
\* before it.
C4_StartupFetch ==
    /\ [](phase = "init" => /\ fetches = <<>> /\ ticks = 0 /\ manuals = 0
                            /\ timers = {}
                            /\ criteria = <<0, 100, "severity", <<>> >>)
    /\ [](phase # "init" => Len(fetches) >= 1)
    /\ [][phase = "init" => /\ phase' = "mounted"
                            /\ fetches' = <<"awaitFetch">>
                            /\ ticks' = 0 /\ manuals' = 0]_vars

\* just started: one fetch in flight, no tick and no click yet
C4_Witness ==
    /\ phase = "mounted"
    /\ fetches = <<"awaitFetch">>
    /\ ticks = 0
    /\ manuals = 0

\* C5 as stated: isLoading implies a fetch is in flight, in every reachable state
C5_LoadingOnlyInFlight == loading => InFlight # {}

\* C5, amended: once the startup effect has run and until teardown,
\* isLoading implies that a fetch has been started and has not completed.
C5_LoadingOnlyInFlightMounted == (phase = "mounted" /\ loading) => InFlight # {}

\* loading again after an earlier fetch has completed
C5_Witness ==
    /\ phase = "mounted"
    /\ loading
    /\ lastDone # 0
    /\ InFlight # {}

\* C6: every start of a fetch (startup, tick, click) leaves lastError null;
\* lastError changes to a non-null value only in a step in which a fetch
\* completes with failure; a successful completion leaves it as it was.
C6_ErrorClearedAtStartSetOnFailure ==
    [][/\ (StartedNow /\ phase' = "mounted") => error' = Null
       /\ (error' # error /\ error' # Null) => \E i \in 1..Len(fetches) : FailedNow(i)
       /\ \A i \in 1..Len(fetches) : SucceededNow(i) => error' = error]_vars

\* a failure set lastError and the start of the next fetch cleared it
C6_Witness ==
    /\ phase = "mounted"
    /\ lastDone # 0
    /\ fetches[lastDone] = "failed"
    /\ InFlight # {}
    /\ error = Null

\* The three kinds of failure as steps of the model
NetworkFailure == \E i \in 1..MaxFetches : ResponseArrives(i, "network")
HttpFailure == \E i \in 1..MaxFetches : ResponseArrives(i, "http")
MalformedBody == \E i \in 1..MaxFetches, b \in BadBodies : BodyArrives(i, b)

\* C7: each kind of failure, while the component is mounted, ends with
\* lastError non-null and isLoading false; and in every mounted state the
\* refresh button, the auto-refresh toggle and the filter controls still
\* respond (within the model's bounds on fetches and intervals).
C7_FailuresCaught ==
    /\ [][(Live /\ (NetworkFailure \/ HttpFailure \/ MalformedBody))
             => (error' # Null /\ loading' = FALSE)]_vars
    /\ [](phase = "mounted" =>
            /\ Len(fetches) < MaxFetches => ENABLED ManualRefresh
            /\ (autoRefresh \/ nextTimerId <= MaxTimerIds)
                  => ENABLED SetAutoRefresh(~autoRefresh)
            /\ \A v \in MagInputs : ENABLED SetMinMag(v) /\ ENABLED SetMaxMag(v)
            /\ \A q \in QueryInputs : ENABLED SetQuery(q)
            /\ ENABLED Reset)

\* the last fetch failed, nothing is in flight, and the error is shown
C7_Witness ==
    /\ phase = "mounted"
    /\ lastDone # 0
    /\ fetches[lastDone] = "failed"
    /\ InFlight = {}
    /\ error # Null
    /\ ~loading
    /\ Len(fetches) < MaxFetches

\* C8: while the component is mounted, rawEvents is exactly the list
\* produced by the successful fetch that completed most recently (empty if
\* none), whatever the order in which the fetches were triggered.
C8_LastCompletedSuccessWins ==
    phase = "mounted" => earthquakes = lastOk.payload

\* the fetch whose result is shown was triggered before another fetch that
\* had already completed with success
C8_Witness ==
    /\ phase = "mounted"
    /\ lastOk.id # 0
    /\ \E j \in 1..Len(fetches) : j > lastOk.id /\ fetches[j] = "succeeded"
    /\ earthquakes = lastOk.payload
    /\ earthquakes # <<>>

\* C9: in every mounted state a click on "Refresh now" is possible (within
\* the model's bound on fetches), and each click starts one fetch and
\* leaves autoRefresh, the interval handle and the active intervals alone.
C9_ManualRefreshIndependent ==
    /\ []((phase = "mounted" /\ Len(fetches) < MaxFetches) => ENABLED ManualRefresh)
    /\ [][manuals' # manuals =>
            /\ manuals' = manuals + 1
            /\ fetches' = Append(fetches, "awaitFetch")
            /\ ticks' = ticks
            /\ UNCHANGED timerState]_vars

\* a click while the startup fetch was still in flight, auto-refresh off
C9_Witness ==
    /\ phase = "mounted"
    /\ manuals >= 1
    /\ Cardinality(InFlight) >= 2
    /\ ~autoRefresh

\* The filter predicate as the specification words it, written without the
\* operators of the code: s is q with its leading and trailing blanks removed,
\* lowercased; place contains s.
IsTrimOf(t, s) ==
    \E a, b \in 0..Len(s) :
        /\ a + b <= Len(s)
        /\ t = SubSeq(s, a + 1, Len(s) - b)
        /\ \A k \in 1..a : s[k] = " "
        /\ \A k \in (Len(s) - b + 1)..Len(s) : s[k] = " "
        /\ (t # <<>> => t[1] # " " /\ t[Len(t)] # " ")

Lowered(s) == [k \in 1..Len(s) |-> lowerChar(s[k])]

Contains(s, t) == \E pre, post \in 0..Len(s) :
    /\ pre + Len(t) + post = Len(s)
    /\ \A k \in 1..Len(t) : s[pre + k] = t[k]

Keeps(e) ==
    /\ minMag <= e.mag
    /\ e.mag <= maxMag
    /\ \E t \in {SubSeq(query, a, b) : a \in 1..(Len(query) + 1), b \in 0..Len(query)} :
          /\ IsTrimOf(t, query)
          /\ (t = <<>> \/ Contains(Lowered(e.place), Lowered(t)))

InFiltered(e) == \E j \in 1..Len(filtered) : filtered[j] = e

\* C10: an event of rawEvents is in the filtered view iff its magnitude is
\* within [minMagnitude, maxMagnitude] and the trimmed, lowercased query is
\* empty or contained in the lowercased place; with minMagnitude >
\* maxMagnitude the view is empty; and a change of the criteria leaves
\* lastError as it was.
C10_FilterPredicate ==
    /\ [](\A k \in 1..Len(earthquakes) : InFiltered(earthquakes[k]) <=> Keeps(earthquakes[k]))
    /\ [](minMag > maxMag => filtered = <<>>)
    /\ [][criteria' # criteria => error' = error]_vars

\* some events kept and some dropped, one of them exactly on the lower bound,
\* under a query that needs trimming and lowercasing
C10_Witness ==
    /\ phase = "mounted"
    /\ query = <<" ", "r", "E", " ">>
    /\ minMag = 0
    /\ Len(earthquakes) = 3
    /\ Len(filtered) = 1
    /\ filtered[1].mag = minMag

\* C11: the filtered view is an order-preserving subsequence of rawEvents:
\* there is a strictly increasing map of its positions to positions of
\* rawEvents holding the same events; and a change of the criteria leaves
\* rawEvents as it was.
C11_FilteredIsSubsequence ==
    /\ [](\E f \in [1..Len(filtered) -> 1..Len(earthquakes)] :
            /\ \A j \in 1..Len(filtered) : filtered[j] = earthquakes[f[j]]
            /\ \A j, k \in 1..Len(filtered) : j < k => f[j] < f[k])
    /\ [][criteria' # criteria => earthquakes' = earthquakes]_vars

\* two events kept out of three
C11_Witness ==
    /\ phase = "mounted"
    /\ Len(earthquakes) = 3
    /\ Len(filtered) = 2
    /\ filtered[1] # filtered[2]

\* C12: stats.count is the length of rawEvents and stats.maxMag the largest
\* magnitude in rawEvents (0 when it is empty), whatever the criteria.
C12_StatsFromRawEvents ==
    /\ stats.count = Len(earthquakes)
    /\ earthquakes = <<>> => stats.maxMag = 0
    /\ earthquakes # <<>> =>
          /\ \E k \in 1..Len(earthquakes) : earthquakes[k].mag = stats.maxMag
          /\ \A k \in 1..Len(earthquakes) : earthquakes[k].mag <= stats.maxMag

\* the criteria hide the strongest event: the view is shorter than the
\* list and the maximum is not in it
C12_Witness ==
    /\ phase = "mounted"
    /\ Len(earthquakes) = 3
    /\ Len(filtered) = 2
    /\ stats.count = 3
    /\ \A j \in 1..Len(filtered) : filtered[j].mag < stats.maxMag

\* C16: a feed whose features lack properties.mag or properties.place is
\* applied all the same (the fetch succeeds); the event of a feature
\* without mag has magnitude 0, the event of a feature without place has
\* the place "Unknown location"; and an event of magnitude 0 is not in the
\* filtered view when minMagnitude > 0.
C16_MissingMagnitudeIsZero ==
    /\ [][\A i \in 1..MaxFetches, b \in Feeds :
            (Live /\ BodyArrives(i, b)) =>
               /\ fetches'[i] = "succeeded"
               /\ Len(earthquakes') = Len(b)
               /\ \A k \in 1..Len(b) :
                    /\ "mag" \notin DOMAIN b[k].properties => earthquakes'[k].mag = 0
                    /\ "place" \notin DOMAIN b[k].properties
                          => earthquakes'[k].place = UnknownLocation]_vars
    /\ [](\A k \in 1..Len(earthquakes) :
            (earthquakes[k].mag = 0 /\ minMag > 0) => ~InFiltered(earthquakes[k]))

\* the list holds the event of the feature without mag, the criteria ask
\* for a positive magnitude, and the view holds other events but not it
C16_Witness ==
    /\ phase = "mounted"
    /\ minMag > 0
    /\ \E k \in 1..Len(earthquakes) : earthquakes[k].id = "c" /\ earthquakes[k].mag = 0
    /\ filtered # <<>>
    /\ \A j \in 1..Len(filtered) : filtered[j].id # "c"

\* C17: a change of autoRefresh leaves the fetches, rawEvents, isLoading and
\* lastError as they were; the fetches started are the startup fetch plus
\* one per interval callback plus one per click.
C17_ToggleStartsNoFetch ==
    /\ [][autoRefresh' # autoRefresh => UNCHANGED <<fetches, earthquakes, loading, error>>]_vars
    /\ [](Len(fetches) = (IF phase = "init" THEN 0 ELSE 1) + ticks + manuals)

\* auto-refresh was switched off and on again and the only fetch is still
\* the startup fetch
C17_Witness ==
    /\ phase = "mounted"
    /\ autoRefresh
    /\ nextTimerId >= 3
    /\ fetches = <<"awaitFetch">>

\* C19 as stated: while the component is mounted, a fetch in flight implies
\* isLoading.
C19_InFlightImpliesLoading ==
    (phase = "mounted" /\ InFlight # {}) => loading

\* C20 as stated: while the component is mounted, with no fetch in flight
\* and at least one completed, lastError is non-null iff the fetch that
\* completed most recently failed.
C20_ErrorIffLastFailed ==
    (phase = "mounted" /\ InFlight = {} /\ lastDone # 0)
        => (error # Null <=> fetches[lastDone] = "failed")

\* C13: a click on "Reset" leaves the criteria at exactly minMag 0, maxMag
\* 10, query "" and color mode severity, and leaves rawEvents, isLoading,
\* lastError, autoRefresh, the interval and the fetches as they were.
C13_ResetRestoresDefaults ==
    [][justReset' =>
          /\ minMag' = 0 /\ maxMag' = 100 /\ query' = <<>> /\ colorMode' = "severity"
          /\ UNCHANGED <<earthquakes, loading, error, autoRefresh, refreshIntervalRef,
                         timers, nextTimerId, fetches>>]_vars

\* reset clicked with a list shown, auto-refresh off and a fetch in flight
C13_Witness ==
    /\ phase = "mounted"
    /\ justReset
    /\ earthquakes # <<>>
    /\ ~autoRefresh
    /\ InFlight # {}

\* The radius the specification gives, in tenths
ClampedRadius(m) ==
    IF m <= 0 THEN 40
    ELSE IF m * 4 < 40 THEN 40
    ELSE IF m * 4 > 400 THEN 400
    ELSE m * 4

\* C14: the radius of every marker lies in [4, 40], is 4 for a magnitude
\* <= 0 and magnitude * 4 clamped to [4, 40] otherwise, and does not
\* decrease when the (positive) magnitude does not decrease.
C14_RadiusClampedMonotone ==
    /\ [](markerRadius >= 40 /\ markerRadius <= 400)
    /\ [](markerRadius = ClampedRadius(marker.mag))
    /\ [][(marker.mag > 0 /\ marker.mag <= marker'.mag) => markerRadius <= markerRadius']_vars

\* a marker for a magnitude above 10: the upper clamp acts
C14_Witness ==
    /\ marker.mag > 100
    /\ markerRadius = 400

\* The tiers of the specification, lowest first
SeverityTiers == <<"#16a34a", "#eab308", "#f59e0b", "#f97316", "#b02a2a">>
DepthTiers == <<"#9fd0ff", "#5aa0f0", "#2b77d9", "#0b3d91">>

\* C15: the color of a marker is the tier counted by the thresholds its
\* value reaches (reaching a threshold exactly counts): magnitude against
\* 3, 4, 5, 6 in severity mode, depth against 50, 100, 300 in depth mode;
\* in depth mode the color does not change with the magnitude, in severity
\* mode it does not change with the depth.
C15_ColorTiers ==
    /\ [](colorMode = "severity" =>
            markerColor = SeverityTiers[1 + Cardinality({t \in {30, 40, 50, 60} : marker.mag >= t})])
    /\ [](colorMode = "depth" =>
            markerColor = DepthTiers[1 + Cardinality({t \in {50, 100, 300} : marker.depth >= t})])
    /\ [][(colorMode = "depth" /\ colorMode' = "depth" /\ marker'.depth = marker.depth)
             => markerColor' = markerColor]_vars
    /\ [][(colorMode = "severity" /\ colorMode' = "severity" /\ marker'.mag = marker.mag)
             => markerColor' = markerColor]_vars

\* magnitude exactly 6 in severity mode: the most severe tier
C15_Witness ==
    /\ colorMode = "severity"
    /\ marker.mag = 60
    /\ marker.depth = 300
    /\ markerColor = "#b02a2a"

\* The call i can take its next step
CanProceed(i) ==
    \/ ENABLED (\E r \in Responses : ResponseArrives(i, r))
    \/ ENABLED (\E b \in BadBodies \cup Feeds : BodyArrives(i, b))

\* C18: a step that changes autoRefresh or the criteria, or a click on
\* "Reset", leaves every fetch where it was; a fetch in flight can always
\* take its next step; and a completion, while the component is mounted,
\* applies its result whatever autoRefresh and the criteria are: the list
\* of the response on success, a non-null lastError on failure, isLoading
\* false in both cases.
C18_InFlightNotCancelled ==
    /\ [][(autoRefresh' # autoRefresh \/ criteria' # criteria \/ justReset')
             => fetches' = fetches]_vars
    /\ [](\A i \in InFlight : CanProceed(i))
    /\ [][\A i \in 1..Len(fetches) :
            /\ (Live /\ SucceededNow(i)) => (earthquakes' = lastOk'.payload /\ loading' = FALSE)
            /\ (Live /\ FailedNow(i)) => (error' # Null /\ loading' = FALSE)]_vars

\* auto-refresh switched off and "Reset" clicked while the startup fetch is
\* still in flight
C18_Witness ==
    /\ phase = "mounted"
    /\ justReset
    /\ ~autoRefresh
    /\ fetches = <<"awaitJson">>

====
